---- MODULE Spec2Model ----
(***************************************************************************)
(* Model of the benchmark orchestration engine of performance_test.py:     *)
(* the two sweeps (fixed_particles_test, fixed_cycles_test), the trial     *)
(* runner (run_simulation), the worker pool (start_worker, stop_worker)    *)
(* and the result store (save_results).                                    *)
(*                                                                         *)
(* Numbers.  A Python float is modelled on a grid of whole seconds: the    *)
(* time values the driver reports are multiples of 6, so that the mean of  *)
(* 1, 2 or 3 of them is again on the grid and statistics.mean is exact in  *)
(* the model; statistics.stdev is rounded down to the grid.  Control       *)
(* values (cycles, particles) are small integers.                          *)
(***************************************************************************)
EXTENDS Integers, Sequences, FiniteSets, TLC

VARIABLES
    pc,                \* position of the single control thread
    test,              \* the sweep that runs: "Fixed_Particles" or "Fixed_Cycles"
    cfg,               \* the sweep plan: [start, increment, max]
    value,             \* the control variable (cycles, resp. particles)
    run,               \* the loop variable of `for run in range(runs)`
    times,             \* the local list `times`
    results,           \* self.results
    has_wp,            \* hasattr(self, 'worker_processes')
    worker_processes,  \* self.worker_processes: handles, in start order
    procs,             \* the operating system's view of each worker handle
    wi,                \* the loop variable i of start_worker
    master,            \* the driver process of the running trial
    out,               \* what the driver of the last trial produced (result)
    exc,               \* the exception that left the sweep function
    pool,              \* outcome of the last start_worker / stop_worker call
    crashes,           \* number of workers that exited by themselves
    evaluated,         \* control values at which trials were run, in order
    attempts,          \* outcomes of the repetitions at the current value
    files,             \* the two result files, as lists of text lines
    old_files,         \* the files as they were before save_results
    report             \* what run_all_tests printed when the try block ended

vars == <<pc, test, cfg, value, run, times, results, has_wp, worker_processes,
          procs, wi, master, out, exc, pool, crashes, evaluated, attempts,
          files, old_files, report>>

(***************************************************************************)
(* Program constants and bounds of the model.                              *)
(***************************************************************************)
runs_per_config == 3
max_runtime_seconds == 180
NumWorkers == 4
FP_particles == 3000
FC_cycles == 10000

MaxStart == 2
MaxIncrement == 2
MaxUpper == 3
MaxCrashes == 1

Tests == {"Fixed_Particles", "Fixed_Cycles"}
Plans == [start : 1..MaxStart, increment : 1..MaxIncrement, max : 0..MaxUpper]

\* Elapsed times a driver can report (seconds; multiples of 6): one that
\* meets the runtime budget exactly and one that exceeds it.
TimeValues == {180, 540}

(***************************************************************************)
(* Sequences helpers.                                                      *)
(***************************************************************************)
RECURSIVE SumSeq(_)
SumSeq(s) == IF s = <<>> THEN 0 ELSE Head(s) + SumSeq(Tail(s))

RECURSIVE SumSq(_, _, _)
\* sum over x in s of (n*x - total)^2
SumSq(s, n, total) ==
    IF s = <<>> THEN 0
    ELSE (n * Head(s) - total) * (n * Head(s) - total) + SumSq(Tail(s), n, total)

ISqrt(n) == CHOOSE r \in 0..n : r * r <= n /\ n < (r + 1) * (r + 1)

(***************************************************************************)
(* Python values: floats and ints on the grid, and None.                   *)
(***************************************************************************)
PyFloat(x) == [ty |-> "float", v |-> x]
PyInt(x) == [ty |-> "int", v |-> x]
PyNone == [ty |-> "None", v |-> 0]

\* statistics.mean(times)
Mean(ts) == PyFloat(SumSeq(ts) \div Len(ts))

\* A variant that divides by n (the population deviation).
Stdev_Population(ts) ==
    LET n == Len(ts)
        ss_n2 == SumSq(ts, n, SumSeq(ts))
    IN  PyFloat(ISqrt(ss_n2 \div (n * n * n)))

\* statistics.stdev(times): sqrt(ss / (n - 1)), ss the exact sum of squared
\* deviations from the mean
Stdev(ts) ==
    LET n == Len(ts)
        ss_n2 == SumSq(ts, n, SumSeq(ts))
    IN  PyFloat(ISqrt(ss_n2 \div (n * n * (n - 1))))

\* statistics.stdev(times) if len(times) > 1 else 0
StdDev(ts) == IF Len(ts) > 1 THEN Stdev(ts) ELSE PyInt(0)

(***************************************************************************)
(* The driver process, as run_simulation sees it: an exit code and the     *)
(* captured stdout, a list of lines.  A line either holds the marker       *)
(* "Elapsed time:" followed by whitespace-separated tokens, or not.        *)
(***************************************************************************)
NumTok(x) == [num |-> TRUE, v |-> x]
JunkTok == [num |-> FALSE, v |-> 0]
NoiseLine == [marker |-> FALSE, rest |-> <<>>]
MarkerLine(toks) == [marker |-> TRUE, rest |-> toks]

DriverOutputs ==
    {[rc |-> 0, stdout |-> <<NoiseLine, MarkerLine(<<NumTok(t), JunkTok>>)>>] : t \in TimeValues}
    \cup {[rc |-> 0, stdout |-> <<NoiseLine>>],
          [rc |-> 0, stdout |-> <<MarkerLine(<<JunkTok>>)>>],
          [rc |-> 1, stdout |-> <<MarkerLine(<<NumTok(180)>>)>>]}

\* The for-loop over result.stdout.split('\n'): the first line that holds the
\* marker decides; split(...)[1].strip().split()[0] raises IndexError when no
\* token follows and float() raises ValueError on a token that is no number.
\* A variant that goes on to the next line after a marker line it cannot read.
RECURSIVE ScanLines_SkipsBadLines(_)
ScanLines_SkipsBadLines(lines) ==
    IF lines = <<>> THEN [kind |-> "MissingMeasurement", runtime |-> PyNone]
    ELSE IF Head(lines).marker /\ Head(lines).rest # <<>> /\ Head(lines).rest[1].num
         THEN [kind |-> "ok", runtime |-> PyFloat(Head(lines).rest[1].v)]
         ELSE ScanLines_SkipsBadLines(Tail(lines))

RECURSIVE ScanLines(_)
ScanLines(lines) ==
    IF lines = <<>> THEN [kind |-> "MissingMeasurement", runtime |-> PyNone]
    ELSE IF Head(lines).marker
         THEN IF Head(lines).rest = <<>> \/ ~Head(lines).rest[1].num
              THEN [kind |-> "Exception", runtime |-> PyNone]
              ELSE [kind |-> "ok", runtime |-> PyFloat(Head(lines).rest[1].v)]
         ELSE ScanLines(Tail(lines))

\* A variant that reads the output whatever the exit code.
Classify_IgnoresExitCode(o) == ScanLines(o.stdout)

\* run_simulation after subprocess.run returned
Classify(o) ==
    IF o.rc # 0 THEN [kind |-> "ProcessError", runtime |-> PyNone]
    ELSE ScanLines(o.stdout)

(***************************************************************************)
(* run_simulation returns to the repetition loop of the sweep.             *)
(***************************************************************************)
\* A variant that counts a failed repetition as a time of zero.
Returns_FailedAsZero(r) ==
    /\ times' = Append(times, r.runtime.v)
    /\ attempts' = Append(attempts, r.runtime)
    /\ run' = run + 1
    /\ pc' = "for"

\* A variant that gives up the control value at the first failed repetition.
Returns_BreaksOnFailure(r) ==
    /\ times' = IF r.runtime # PyNone THEN Append(times, r.runtime.v) ELSE times
    /\ attempts' = Append(attempts, r.runtime)
    /\ run' = IF r.runtime # PyNone THEN run + 1 ELSE runs_per_config
    /\ pc' = "for"

\* if runtime is not None: times.append(runtime)
Returns(r) ==
    /\ times' = IF r.runtime # PyNone THEN Append(times, r.runtime.v) ELSE times
    /\ attempts' = Append(attempts, r.runtime)
    /\ run' = run + 1
    /\ pc' = "for"

\* no driver has run yet in this call; the driver was killed on timeout
NoOutput == [rc |-> -1, stdout |-> <<>>]
KilledOutput == [rc |-> -9, stdout |-> <<>>]

\* The frame of the sweep function is gone once control has left it.
FrameDropped ==
    /\ run' = 0
    /\ times' = <<>>
    /\ attempts' = <<>>
    /\ out' = NoOutput
    /\ wi' = 0

Running == {h \in DOMAIN procs : procs[h] = "running"}
NoProcs == [h \in 1..NumWorkers |-> "none"]

(***************************************************************************)
(* The sweep: fixed_particles_test and fixed_cycles_test are the same     *)
(* loop over a different control variable.                                 *)
(***************************************************************************)
\* A variant whose loop test excludes the upper bound.
LoopTest_ExclusiveBound ==
    /\ pc = "loop"
    /\ IF value < cfg.max
       THEN /\ times' = <<>>
            /\ attempts' = <<>>
            /\ run' = 0
            /\ pc' = "for"
       ELSE /\ pc' = "stop"
            /\ UNCHANGED <<times, attempts, run>>
    /\ out' = NoOutput
    /\ UNCHANGED <<test, cfg, value, results, has_wp, worker_processes, procs,
                   wi, master, exc, pool, crashes, evaluated, files, old_files, report>>

\* while cycles <= max_cycles:  times = []
LoopTest ==
    /\ pc = "loop"
    /\ IF value <= cfg.max
       THEN /\ times' = <<>>
            /\ attempts' = <<>>
            /\ run' = 0
            /\ pc' = "for"
       ELSE /\ pc' = "stop"
            /\ UNCHANGED <<times, attempts, run>>
    /\ out' = NoOutput
    /\ UNCHANGED <<test, cfg, value, results, has_wp, worker_processes, procs,
                   wi, master, exc, pool, crashes, evaluated, files, old_files, report>>

\* A variant that never finds a pool: every call starts the workers.
PoolMissing_Always == TRUE

\* not hasattr(self, 'worker_processes') or not self.worker_processes
PoolMissing == ~has_wp \/ worker_processes = <<>>

\* for run in range(runs): runtime = self.run_simulation(mode, ...), up to
\* the launch of the driver or the start of the pool
CallRunSimulation ==
    /\ pc = "for"
    /\ run < runs_per_config
    /\ evaluated' = IF run = 0 THEN Append(evaluated, value) ELSE evaluated
    /\ out' = NoOutput
    /\ IF PoolMissing
       THEN \* start_worker: pkill, sleep(1), self.worker_processes = []
            /\ has_wp' = TRUE
            /\ worker_processes' = <<>>
            /\ procs' = NoProcs
            /\ wi' = 0
            /\ pool' = "starting"
            /\ pc' = "sw_spawn"
       ELSE /\ pc' = "launch"
            /\ UNCHANGED <<has_wp, worker_processes, procs, wi, pool>>
    /\ UNCHANGED <<test, cfg, value, run, times, results, master, exc, crashes,
                   attempts, files, old_files, report>>

\* worker = subprocess.Popen(cmd, ...); self.worker_processes.append(worker)
SpawnWorker ==
    /\ pc = "sw_spawn"
    /\ worker_processes' = Append(worker_processes, wi + 1)
    /\ procs' = [procs EXCEPT ![wi + 1] = "running"]
    /\ pc' = "sw_probe"
    /\ UNCHANGED <<test, cfg, value, run, times, results, has_wp, wi, master, out,
                   exc, pool, crashes, evaluated, attempts, files, old_files, report>>

\* Popen raises (the executable cannot be started): start_worker is called
\* outside the try of run_simulation, so the error leaves the sweep
SpawnWorkerRaises ==
    /\ pc = "sw_spawn"
    /\ exc' = "Exception"
    /\ pc' = "raised"
    /\ FrameDropped
    /\ UNCHANGED <<test, cfg, value, results, has_wp, worker_processes,
                   procs, master, pool, crashes, evaluated, files, old_files, report>>

\* A variant whose failed start forgets the handles it had gathered.
ProbeWorker_ClearsList ==
    /\ pc = "sw_probe"
    /\ IF procs[wi + 1] # "running"
       THEN /\ pool' = "failed"
            /\ worker_processes' = <<>>
            /\ Returns([kind |-> "WorkerStartFailure", runtime |-> PyNone])
            /\ UNCHANGED wi
       ELSE /\ IF wi + 1 < NumWorkers
               THEN wi' = wi + 1 /\ pc' = "sw_spawn"
               ELSE wi' = wi /\ pc' = "sw_settle"
            /\ UNCHANGED <<pool, times, attempts, run, worker_processes>>
    /\ UNCHANGED <<test, cfg, value, results, has_wp, procs,
                   master, out, exc, crashes, evaluated, files, old_files, report>>

\* time.sleep(0.5); if worker.poll() is not None: return False
ProbeWorker ==
    /\ pc = "sw_probe"
    /\ IF procs[wi + 1] # "running"
       THEN \* start_worker returns False, run_simulation returns None
            /\ pool' = "failed"
            /\ Returns([kind |-> "WorkerStartFailure", runtime |-> PyNone])
            /\ UNCHANGED wi
       ELSE /\ IF wi + 1 < NumWorkers
               THEN wi' = wi + 1 /\ pc' = "sw_spawn"
               ELSE wi' = wi /\ pc' = "sw_settle"
            /\ UNCHANGED <<pool, times, attempts, run>>
    /\ UNCHANGED <<test, cfg, value, results, has_wp, worker_processes, procs,
                   master, out, exc, crashes, evaluated, files, old_files, report>>

\* time.sleep(4); return True
SettleDelay ==
    /\ pc = "sw_settle"
    /\ pool' = "ready"
    /\ pc' = "launch"
    /\ UNCHANGED <<test, cfg, value, run, times, results, has_wp, worker_processes,
                   procs, wi, master, out, exc, crashes, evaluated, attempts,
                   files, old_files, report>>

\* subprocess.run(cmd, ...) starts the driver
LaunchDriver ==
    /\ pc = "launch"
    /\ master' = "running"
    /\ pc' = "wait"
    /\ UNCHANGED <<test, cfg, value, run, times, results, has_wp, worker_processes,
                   procs, wi, out, exc, pool, crashes, evaluated, attempts,
                   files, old_files, report>>

\* A variant in which the launch error is not caught.
LaunchRaises_Propagates ==
    /\ pc = "launch"
    /\ exc' = "Exception"
    /\ pc' = "raised"
    /\ FrameDropped
    /\ UNCHANGED <<test, cfg, value, results, has_wp, worker_processes, procs,
                   master, pool, crashes, evaluated, files, old_files, report>>

\* subprocess.run raises before a process exists: except Exception
LaunchRaises ==
    /\ pc = "launch"
    /\ Returns([kind |-> "Exception", runtime |-> PyNone])
    /\ UNCHANGED <<test, cfg, value, results, has_wp, worker_processes, procs, wi,
                   master, out, exc, pool, crashes, evaluated, files, old_files, report>>

\* the driver exits within the timeout
DriverExits ==
    /\ pc = "wait"
    /\ \E o \in DriverOutputs :
          /\ out' = o
          /\ Returns(Classify(o))
    /\ master' = "none"
    /\ UNCHANGED <<test, cfg, value, results, has_wp, worker_processes, procs, wi,
                   exc, pool, crashes, evaluated, files, old_files, report>>

\* A variant that tears the worker pool down on timeout.
DriverTimeout_StopsPool ==
    /\ pc = "wait"
    /\ out' = KilledOutput
    /\ master' = "none"
    /\ procs' = [h \in DOMAIN procs |-> IF procs[h] = "running" THEN "terminated" ELSE procs[h]]
    /\ worker_processes' = <<>>
    /\ pool' = "stopped"
    /\ Returns([kind |-> "TimedOut", runtime |-> PyNone])
    /\ UNCHANGED <<test, cfg, value, results, has_wp, wi,
                   exc, crashes, evaluated, files, old_files, report>>

\* A variant that returns on timeout without killing the driver.
DriverTimeout_LeavesDriver ==
    /\ pc = "wait"
    /\ out' = KilledOutput
    /\ master' = master
    /\ Returns([kind |-> "TimedOut", runtime |-> PyNone])
    /\ UNCHANGED <<test, cfg, value, results, has_wp, worker_processes, procs, wi,
                   exc, pool, crashes, evaluated, files, old_files, report>>

\* subprocess.TimeoutExpired: subprocess.run has killed the driver
DriverTimeout ==
    /\ pc = "wait"
    /\ out' = KilledOutput
    /\ master' = "none"
    /\ Returns([kind |-> "TimedOut", runtime |-> PyNone])
    /\ UNCHANGED <<test, cfg, value, results, has_wp, worker_processes, procs, wi,
                   exc, pool, crashes, evaluated, files, old_files, report>>

\* the result dict built at the end of a control value
MakeRecord(tt, val, ts) ==
    [test_type |-> tt,
     mode |-> "distributed",
     particles |-> IF tt = "Fixed_Particles" THEN FP_particles ELSE val,
     cycles |-> IF tt = "Fixed_Particles" THEN val ELSE FC_cycles,
     run_times |-> ts,
     average_time |-> Mean(ts),
     std_dev |-> StdDev(ts)]

\* A variant without the adaptive stop.
BudgetExceeded_Never(ts) == FALSE

\* if avg_time > max_runtime: break
BudgetExceeded(ts) == Mean(ts).v > max_runtime_seconds

\* What the loop body does after the repetitions: the record it appends, if
\* any (Emitted), and whether it breaks out of the while loop (Breaks).
\* A variant of Emitted that drops the record of a single success, and a
\* variant of Breaks that goes on after a value at which all runs failed.
Emitted_DropsSingle(tt, val, ts) == IF Len(ts) > 1 THEN <<MakeRecord(tt, val, ts)>> ELSE <<>>

Emitted(tt, val, ts) == IF Len(ts) > 0 THEN <<MakeRecord(tt, val, ts)>> ELSE <<>>

Breaks_OnlyOnBudget(ts) == IF Len(ts) > 0 THEN BudgetExceeded(ts) ELSE FALSE

\* A variant of Breaks that leaves the loop as soon as a repetition failed.
Breaks_OnAnyFailure(ts) ==
    IF Len(ts) > 0 THEN (Len(ts) < runs_per_config \/ BudgetExceeded(ts)) ELSE TRUE

Breaks(ts) == IF Len(ts) > 0 THEN BudgetExceeded(ts) ELSE TRUE

\* A variant that advances by two increments.
NextValue_Skip(val) == val + 2 * cfg.increment

\* A variant with an increment of zero.
NextValue_Stays(val) == val

\* cycles += cycle_increment
NextValue(val) == val + cfg.increment

\* the part of the loop body after the for loop
Aggregate ==
    /\ pc = "for"
    /\ run = runs_per_config
    /\ results' = results \o Emitted(test, value, times)
    /\ IF Breaks(times)
       THEN pc' = "stop" /\ value' = value
       ELSE pc' = "loop" /\ value' = NextValue(value)
    /\ UNCHANGED <<test, cfg, run, times, has_wp, worker_processes, procs, wi,
                   master, out, exc, pool, crashes, evaluated, attempts,
                   files, old_files, report>>

\* Sets of workers that ignore the graceful terminate request.
Stubborn == {{}, {1}, 1..NumWorkers}

\* worker.terminate(); worker.wait(timeout=5); on TimeoutExpired worker.kill()
Stopped(stubborn) ==
    [h \in DOMAIN procs |->
        IF procs[h] = "running"
        THEN IF h \in stubborn THEN "killed" ELSE "terminated"
        ELSE procs[h]]

\* A variant that stops the processes but keeps their handles in the list.
StopWorkerEffect_KeepsList ==
    /\ \E stubborn \in Stubborn : procs' = Stopped(stubborn)
    /\ worker_processes' = worker_processes
    /\ pool' = IF pool = "none" THEN "none" ELSE "stopped"

\* stop_worker, then pkill -f "role worker"
StopWorkerEffect ==
    /\ \E stubborn \in Stubborn : procs' = Stopped(stubborn)
    /\ IF has_wp /\ worker_processes # <<>>
       THEN worker_processes' = <<>>
       ELSE worker_processes' = worker_processes
    /\ pool' = IF pool = "none" THEN "none" ELSE "stopped"

\* A variant that stops the workers only when the loop ran to its bound.
StopWorker_OnlyAtBound ==
    /\ pc = "stop"
    /\ IF value > cfg.max
       THEN StopWorkerEffect
       ELSE UNCHANGED <<procs, worker_processes, pool>>
    /\ pc' = "sleep"
    /\ out' = NoOutput
    /\ UNCHANGED <<test, cfg, value, run, times, results, has_wp, wi, master,
                   exc, crashes, evaluated, attempts, files, old_files, report>>

\* if mode == "distributed": self.stop_worker()
StopWorker ==
    /\ pc = "stop"
    /\ StopWorkerEffect
    /\ pc' = "sleep"
    /\ out' = NoOutput
    /\ UNCHANGED <<test, cfg, value, run, times, results, has_wp, wi, master,
                   exc, crashes, evaluated, attempts, files, old_files, report>>

\* KeyboardInterrupt while stop_worker waits for the handle at position k of
\* the list: the handles before it have been stopped, the list is not yet
\* cleared, and the interrupt leaves the sweep
StopWorkerInterrupted ==
    /\ pc = "stop"
    /\ has_wp /\ worker_processes # <<>>
    /\ \E k \in {1, Len(worker_processes)} :
          procs' = [h \in DOMAIN procs |->
                       IF \E i \in 1..(k - 1) : worker_processes[i] = h
                       THEN Stopped({})[h] ELSE procs[h]]
    /\ exc' = "KeyboardInterrupt"
    /\ pc' = "raised"
    /\ FrameDropped
    /\ UNCHANGED <<test, cfg, value, results, has_wp, worker_processes,
                   master, pool, crashes, evaluated, files, old_files, report>>

\* time.sleep(2), and the sweep function returns
SleepDone ==
    /\ pc = "sleep"
    /\ pc' = "returned"
    /\ FrameDropped
    /\ UNCHANGED <<test, cfg, value, results, has_wp, worker_processes,
                   procs, master, exc, pool, crashes, evaluated, files, old_files, report>>

\* Where the control thread is suspended: the sleeps of start_worker, the
\* wait for the driver, the sleep that ends the sweep.
Suspended == {"sw_probe", "sw_settle", "wait", "sleep"}

\* KeyboardInterrupt at a suspension point: no except clause of the sweep or
\* of run_simulation catches it; subprocess.run kills the driver it waits
\* for and re-raises
Interrupt ==
    /\ pc \in Suspended
    /\ exc' = "KeyboardInterrupt"
    /\ master' = "none"
    /\ pc' = "raised"
    /\ FrameDropped
    /\ UNCHANGED <<test, cfg, value, results, has_wp, worker_processes,
                   procs, pool, crashes, evaluated, files, old_files, report>>

\* The worker that may exit: the one whose liveness probe is due, or the
\* first of a pool that serves a driver.
CrashCandidates == IF pc = "sw_probe" THEN {wi + 1} ELSE {1}

\* a worker process exits by itself, while the control thread sleeps before
\* the liveness probe or waits for the driver
WorkerExit ==
    /\ pc \in {"sw_probe", "wait"}
    /\ crashes < MaxCrashes
    /\ \E h \in Running \cap CrashCandidates : procs' = [procs EXCEPT ![h] = "exited"]
    /\ crashes' = crashes + 1
    /\ UNCHANGED <<pc, test, cfg, value, run, times, results, has_wp,
                   worker_processes, wi, master, out, exc, pool, evaluated,
                   attempts, files, old_files, report>>

NoFiles == [fp |-> <<>>, fc |-> <<>>]

\* the entry of fixed_particles_test (on a fresh object) or of
\* fixed_cycles_test (after a sweep that stopped its workers):
\* cycles = FIXED_PARTICLES_TEST["starting_cycles"]
InitSweep ==
    /\ test \in Tests
    /\ cfg \in Plans
    /\ value = cfg.start
    /\ pc = "loop"
    /\ run = 0
    /\ times = <<>>
    /\ results = <<>>
    /\ has_wp = (test = "Fixed_Cycles")
    /\ worker_processes = <<>>
    /\ procs = NoProcs
    /\ wi = 0
    /\ master = "none"
    /\ out = NoOutput
    /\ exc = "none"
    /\ pool = "none"
    /\ crashes = 0
    /\ evaluated = <<>>
    /\ attempts = <<>>
    /\ files = NoFiles
    /\ old_files = NoFiles
    /\ report = "none"

NextSweep ==
    \/ LoopTest
    \/ CallRunSimulation
    \/ SpawnWorker
    \/ SpawnWorkerRaises
    \/ ProbeWorker
    \/ SettleDelay
    \/ LaunchDriver
    \/ LaunchRaises
    \/ DriverExits
    \/ DriverTimeout
    \/ Aggregate
    \/ StopWorker
    \/ StopWorkerInterrupted
    \/ SleepDone
    \/ Interrupt
    \/ WorkerExit

SpecSweep == InitSweep /\ [][NextSweep]_vars

\* The steps the control thread takes by itself.  Each sleep ends, each
\* process start returns and each trial ends, by the exit of the driver or by
\* the timeout of 300 seconds; an interrupt, the exit of a worker and an
\* error of Popen may happen but need not.
SweepSteps ==
    \/ LoopTest
    \/ CallRunSimulation
    \/ SpawnWorker
    \/ ProbeWorker
    \/ SettleDelay
    \/ LaunchDriver
    \/ DriverExits
    \/ DriverTimeout
    \/ Aggregate
    \/ StopWorker
    \/ SleepDone

\* The plans of the sweeps whose end is checked: sweeps of three, two, one
\* and no control value.
LivePlans == {[start |-> 1, increment |-> 1, max |-> 3],
              [start |-> 1, increment |-> 2, max |-> 3],
              [start |-> 2, increment |-> 2, max |-> 3],
              [start |-> 2, increment |-> 1, max |-> 1]}

InitSweepLive == InitSweep /\ cfg \in LivePlans

SpecSweepLive == InitSweepLive /\ [][NextSweep]_vars /\ WF_vars(SweepSteps)

(***************************************************************************)
(* The result store.  Text is a sequence of characters; a file is the list *)
(* of its lines.  csv.writer turns each field into text (None: the empty   *)
(* field, an int: its decimal digits, a float: its repr, a str: itself)    *)
(* and joins the fields with commas.                                       *)
(***************************************************************************)
DigitChar(d) == <<"0", "1", "2", "3", "4", "5", "6", "7", "8", "9">>[d + 1]

RECURSIVE Digits(_)
\* str(n) for an int n >= 0
Digits(n) == IF n < 10 THEN <<DigitChar(n)>> ELSE Digits(n \div 10) \o <<DigitChar(n % 10)>>

\* repr(x) for a float on the grid: 180.0
FloatRepr(x) == Digits(x) \o <<".", "0">>

\* the text csv.writer writes for one field
FieldText(v) ==
    CASE v.ty = "None" -> <<>>
      [] v.ty = "int" -> Digits(v.v)
      [] v.ty = "float" -> FloatRepr(v.v)
      [] v.ty = "str" -> <<v.v>>

PyStr(x) == [ty |-> "str", v |-> x]

RECURSIVE JoinFields(_)
JoinFields(fs) ==
    IF Len(fs) = 1 THEN FieldText(fs[1])
    ELSE FieldText(Head(fs)) \o <<",">> \o JoinFields(Tail(fs))

\* A variant that pads in front of the times.
PadTimes_Front(ts) == [i \in 1..(3 - Len(ts)) |-> PyNone] \o [i \in 1..Len(ts) |-> PyFloat(ts[i])]

\* times = result['run_times'] + [None] * (3 - len(result['run_times']))
PadTimes(ts) == [i \in 1..Len(ts) |-> PyFloat(ts[i])] \o [i \in 1..(3 - Len(ts)) |-> PyNone]

\* A variant that writes cycles before particles.
RowOf_CyclesFirst(r) ==
    LET padded == PadTimes(r.run_times)
    IN  JoinFields(<<PyStr(r.mode), PyInt(r.cycles), PyInt(r.particles),
                     padded[1], padded[2], padded[3],
                     r.average_time, r.std_dev>>)

\* writer.writerow([mode, particles, cycles, times[0], times[1], times[2],
\*                  average_time, std_dev])
RowOf(r) ==
    LET padded == PadTimes(r.run_times)
    IN  JoinFields(<<PyStr(r.mode), PyInt(r.particles), PyInt(r.cycles),
                     padded[1], padded[2], padded[3],
                     r.average_time, r.std_dev>>)

RowsOf(rs) == [i \in 1..Len(rs) |-> RowOf(rs[i])]

\* [r for r in self.results if r['test_type'] == ...]
ResultsOf(tt) == SelectSeq(results, LAMBDA r : r.test_type = tt)

\* the first half of save_results: fixed_particles_results.csv, opened for
\* append when there is a record to write
SaveFixedParticles ==
    /\ pc = "save_fp"
    /\ files' = [files EXCEPT !.fp = files.fp \o RowsOf(ResultsOf("Fixed_Particles"))]
    /\ pc' = "save_fc"
    /\ UNCHANGED <<test, cfg, value, run, times, results, has_wp, worker_processes,
                   procs, wi, master, out, exc, pool, crashes, evaluated, attempts,
                   old_files, report>>

\* A variant that opens the file for writing instead of appending.
SaveFixedCycles_Truncates ==
    /\ pc = "save_fc"
    /\ files' = [files EXCEPT !.fc = RowsOf(ResultsOf("Fixed_Cycles"))]
    /\ pc' = "saved"
    /\ UNCHANGED <<test, cfg, value, run, times, results, has_wp, worker_processes,
                   procs, wi, master, out, exc, pool, crashes, evaluated, attempts,
                   old_files, report>>

\* the second half: fixed_cycles_results.csv
SaveFixedCycles ==
    /\ pc = "save_fc"
    /\ files' = [files EXCEPT !.fc = files.fc \o RowsOf(ResultsOf("Fixed_Cycles"))]
    /\ pc' = "saved"
    /\ UNCHANGED <<test, cfg, value, run, times, results, has_wp, worker_processes,
                   procs, wi, master, out, exc, pool, crashes, evaluated, attempts,
                   old_files, report>>

(***************************************************************************)
(* save_results on the results a run can hold: the records of the first    *)
(* sweep, by increasing cycles, then those of the second, by increasing    *)
(* particles; the files hold the rows of earlier runs.                     *)
(***************************************************************************)
MaxRecords == 2

TimeLists == UNION {[1..k -> TimeValues] : k \in 1..runs_per_config}

\* the lists of n records a sweep can leave, at the control values 1..n
RecordLists(tt, n) == {[i \in 1..n |-> MakeRecord(tt, i, tl[i])] : tl \in [1..n -> TimeLists]}

\* the lists of up to m records self.results can hold
StoreInputs(m) ==
    UNION {UNION {{fp \o fc : fp \in RecordLists("Fixed_Particles", a),
                             fc \in RecordLists("Fixed_Cycles", n - a)}
                  : a \in 0..n}
           : n \in 0..m}

EarlierRow == RowOf([MakeRecord("Fixed_Particles", 1, <<180, 180, 540>>) EXCEPT !.mode = "sequential"])
PriorFiles == {NoFiles, [fp |-> <<EarlierRow>>, fc |-> <<EarlierRow>>]}

InitStore ==
    /\ pc = "save_fp"
    /\ results \in StoreInputs(MaxRecords)
    /\ files \in PriorFiles
    /\ old_files = files
    /\ test = "Fixed_Cycles"
    /\ cfg = [start |-> 1, increment |-> 1, max |-> MaxUpper]
    /\ value = 1
    /\ run = 0
    /\ times = <<>>
    /\ has_wp = TRUE
    /\ worker_processes = <<>>
    /\ procs = NoProcs
    /\ wi = 0
    /\ master = "none"
    /\ out = NoOutput
    /\ exc = "none"
    /\ pool = "stopped"
    /\ crashes = 0
    /\ evaluated = <<>>
    /\ attempts = <<>>
    /\ report = "none"

NextStore ==
    \/ SaveFixedParticles
    \/ SaveFixedCycles

SpecStore == InitStore /\ [][NextStore]_vars

(***************************************************************************)
(* The whole run: run_all_tests calls setup_environment, the two sweeps    *)
(* and save_results inside a try block, reports how the block ended, and   *)
(* calls cleanup in the finally clause.                                    *)
(***************************************************************************)
\* The plans of the two sweeps of a run: a sweep of no control value (the
\* start is above the upper bound) and a sweep of one.  Sweeps of more values
\* are the subject of SpecSweep.
RunPlans == {[start |-> 1, increment |-> 1, max |-> 0],
             [start |-> 1, increment |-> 1, max |-> 1]}

\* setup_environment finds the JAR; fixed_particles_test is entered
SetupEnvironment ==
    /\ pc = "setup"
    /\ pc' = "loop"
    /\ UNCHANGED <<test, cfg, value, run, times, results, has_wp, worker_processes,
                   procs, wi, master, out, exc, pool, crashes, evaluated, attempts,
                   files, old_files, report>>

\* the JAR is missing: sys.exit(1) raises SystemExit
SetupExits ==
    /\ pc = "setup"
    /\ exc' = "SystemExit"
    /\ pc' = "raised"
    /\ UNCHANGED <<test, cfg, value, run, times, results, has_wp, worker_processes,
                   procs, wi, master, out, pool, crashes, evaluated, attempts,
                   files, old_files, report>>

\* fixed_particles_test has returned; fixed_cycles_test is entered
StartFixedCycles ==
    /\ pc = "returned"
    /\ test = "Fixed_Particles"
    /\ test' = "Fixed_Cycles"
    /\ cfg' \in RunPlans
    /\ value' = cfg'.start
    /\ evaluated' = <<>>
    /\ pc' = "loop"
    /\ UNCHANGED <<run, times, results, has_wp, worker_processes, procs, wi, master,
                   out, exc, pool, crashes, attempts, files, old_files, report>>

\* fixed_cycles_test has returned; save_results is entered
CallSaveResults ==
    /\ pc = "returned"
    /\ test = "Fixed_Cycles"
    /\ old_files' = files
    /\ pc' = "save_fp"
    /\ UNCHANGED <<test, cfg, value, run, times, results, has_wp, worker_processes,
                   procs, wi, master, out, exc, pool, crashes, evaluated, attempts,
                   files, report>>

\* A variant of a failed open that is passed over in silence.
SaveOpenFails_Swallowed ==
    /\ \/ pc = "save_fp" /\ ResultsOf("Fixed_Particles") # <<>>
       \/ pc = "save_fc" /\ ResultsOf("Fixed_Cycles") # <<>>
    /\ exc' = "OSError"
    /\ pc' = "saved"
    /\ UNCHANGED <<test, cfg, value, run, times, results, has_wp, worker_processes,
                   procs, wi, master, out, pool, crashes, evaluated, attempts,
                   files, old_files, report>>

\* open(..., 'a') raises OSError: a file is opened only when there is a
\* record for it, and nothing in save_results catches the error
SaveOpenFails ==
    /\ \/ pc = "save_fp" /\ ResultsOf("Fixed_Particles") # <<>>
       \/ pc = "save_fc" /\ ResultsOf("Fixed_Cycles") # <<>>
    /\ exc' = "OSError"
    /\ pc' = "raised"
    /\ UNCHANGED <<test, cfg, value, run, times, results, has_wp, worker_processes,
                   procs, wi, master, out, pool, crashes, evaluated, attempts,
                   files, old_files, report>>

\* print("Performance testing completed successfully!"): the try block ended
ReportSuccess ==
    /\ pc = "saved"
    /\ report' = "completed"
    /\ pc' = "finally"
    /\ UNCHANGED <<test, cfg, value, run, times, results, has_wp, worker_processes,
                   procs, wi, master, out, exc, pool, crashes, evaluated, attempts,
                   files, old_files>>

\* the exceptions that `except Exception` catches
CaughtAsException == {"Exception", "OSError"}

\* A variant whose handlers write the records gathered so far.
HandleException_SavesPartial ==
    /\ pc = "raised"
    /\ report' = CASE exc = "KeyboardInterrupt" -> "interrupted"
                    [] exc \in CaughtAsException -> "error"
                    [] OTHER -> report
    /\ files' = [fp |-> files.fp \o RowsOf(ResultsOf("Fixed_Particles")),
                 fc |-> files.fc \o RowsOf(ResultsOf("Fixed_Cycles"))]
    /\ pc' = "finally"
    /\ UNCHANGED <<test, cfg, value, run, times, results, has_wp, worker_processes,
                   procs, wi, master, out, exc, pool, crashes, evaluated, attempts,
                   old_files>>

\* except KeyboardInterrupt / except Exception; SystemExit is caught by
\* neither and passes through the finally clause
HandleException ==
    /\ pc = "raised"
    /\ report' = CASE exc = "KeyboardInterrupt" -> "interrupted"
                    [] exc \in CaughtAsException -> "error"
                    [] OTHER -> report
    /\ pc' = "finally"
    /\ UNCHANGED <<test, cfg, value, run, times, results, has_wp, worker_processes,
                   procs, wi, master, out, exc, pool, crashes, evaluated, attempts,
                   files, old_files>>

\* A variant of the finally clause that does not stop the workers.
Cleanup_Skipped ==
    /\ pc = "finally"
    /\ pc' = "exited"
    /\ UNCHANGED <<test, cfg, value, run, times, results, has_wp, worker_processes,
                   procs, wi, master, out, exc, pool, crashes, evaluated, attempts,
                   files, old_files, report>>

\* finally: self.cleanup(), which is self.stop_worker()
Cleanup ==
    /\ pc = "finally"
    /\ StopWorkerEffect
    /\ pc' = "exited"
    /\ UNCHANGED <<test, cfg, value, run, times, results, has_wp, wi, master, out,
                   exc, crashes, evaluated, attempts, files, old_files, report>>

\* a fresh PerformanceTest object; run_all_tests is about to enter the try
InitRun ==
    /\ pc = "setup"
    /\ test = "Fixed_Particles"
    /\ cfg \in RunPlans
    /\ value = cfg.start
    /\ run = 0
    /\ times = <<>>
    /\ results = <<>>
    /\ has_wp = FALSE
    /\ worker_processes = <<>>
    /\ procs = NoProcs
    /\ wi = 0
    /\ master = "none"
    /\ out = NoOutput
    /\ exc = "none"
    /\ pool = "none"
    /\ crashes = 0
    /\ evaluated = <<>>
    /\ attempts = <<>>
    /\ files \in PriorFiles
    /\ old_files = files
    /\ report = "none"

NextRun ==
    \/ SetupEnvironment
    \/ SetupExits
    \/ NextSweep
    \/ StartFixedCycles
    \/ CallSaveResults
    \/ NextStore
    \/ SaveOpenFails
    \/ ReportSuccess
    \/ HandleException
    \/ Cleanup

SpecRun == InitRun /\ [][NextRun]_vars

(***************************************************************************)
(* stop_worker step by step.  In the sweep and in cleanup the call is one  *)
(* action (StopWorkerEffect, its net effect); here each handle of the list *)
(* is sent terminate, waited for and, when the wait times out, killed.  A  *)
(* worker that got the terminate request has either exited ("terminated")  *)
(* or ignores it ("ignoring") and is still alive.                          *)
(***************************************************************************)
Alive == {h \in DOMAIN procs : procs[h] \in {"running", "ignoring"}}

\* A variant without the hasattr test: the attribute is read.
StopEnter_NoHasattr ==
    /\ pc = "st_enter"
    /\ IF ~has_wp
       THEN exc' = "AttributeError" /\ pc' = "raised" /\ wi' = wi
       ELSE /\ exc' = exc
            /\ IF worker_processes # <<>>
               THEN wi' = 1 /\ pc' = "st_terminate"
               ELSE wi' = wi /\ pc' = "st_pkill"
    /\ UNCHANGED <<test, cfg, value, run, times, results, has_wp, worker_processes,
                   procs, master, out, pool, crashes, evaluated, attempts,
                   files, old_files, report>>

\* if hasattr(self, 'worker_processes') and self.worker_processes:
StopEnter ==
    /\ pc = "st_enter"
    /\ IF has_wp /\ worker_processes # <<>>
       THEN wi' = 1 /\ pc' = "st_terminate"
       ELSE wi' = wi /\ pc' = "st_pkill"
    /\ UNCHANGED <<test, cfg, value, run, times, results, has_wp, worker_processes,
                   procs, master, out, exc, pool, crashes, evaluated, attempts,
                   files, old_files, report>>

\* worker.terminate(): a no-op on a handle whose process has exited
TerminateWorker ==
    /\ pc = "st_terminate"
    /\ LET h == worker_processes[wi]
       IN  IF procs[h] = "running"
           THEN \E answer \in {"terminated", "ignoring"} :
                    procs' = [procs EXCEPT ![h] = answer]
           ELSE procs' = procs
    /\ pc' = "st_wait"
    /\ UNCHANGED <<test, cfg, value, run, times, results, has_wp, worker_processes,
                   wi, master, out, exc, pool, crashes, evaluated, attempts,
                   files, old_files, report>>

\* the for loop of stop_worker goes to the next handle, or ends:
\* self.worker_processes = []
NextHandle ==
    IF wi < Len(worker_processes)
    THEN wi' = wi + 1 /\ pc' = "st_terminate" /\ worker_processes' = worker_processes
    ELSE wi' = 0 /\ pc' = "st_pkill" /\ worker_processes' = <<>>

\* worker.wait(timeout=5) returns: the process has exited
WaitWorker ==
    /\ pc = "st_wait"
    /\ procs[worker_processes[wi]] # "ignoring"
    /\ NextHandle
    /\ UNCHANGED <<test, cfg, value, run, times, results, has_wp, procs,
                   master, out, exc, pool, crashes, evaluated, attempts,
                   files, old_files, report>>

\* A variant that waits without a timeout.
WaitTimesOut_Never ==
    /\ pc = "st_wait"
    /\ procs[worker_processes[wi]] = "ignoring"
    /\ UNCHANGED vars

\* worker.wait(timeout=5) raises TimeoutExpired after the grace period
WaitTimesOut ==
    /\ pc = "st_wait"
    /\ procs[worker_processes[wi]] = "ignoring"
    /\ pc' = "st_kill"
    /\ UNCHANGED <<test, cfg, value, run, times, results, has_wp, worker_processes,
                   procs, wi, master, out, exc, pool, crashes, evaluated, attempts,
                   files, old_files, report>>

\* except subprocess.TimeoutExpired: worker.kill()
KillWorker ==
    /\ pc = "st_kill"
    /\ procs' = [procs EXCEPT ![worker_processes[wi]] = "killed"]
    /\ NextHandle
    /\ UNCHANGED <<test, cfg, value, run, times, results, has_wp,
                   master, out, exc, pool, crashes, evaluated, attempts,
                   files, old_files, report>>

\* subprocess.run(["pkill", "-f", "role worker"]): whatever worker process
\* is still alive is ended; stop_worker returns
PkillWorkers ==
    /\ pc = "st_pkill"
    /\ procs' = [h \in DOMAIN procs |-> IF h \in Alive THEN "killed" ELSE procs[h]]
    /\ pool' = IF pool = "none" THEN "none" ELSE "stopped"
    /\ pc' = "st_done"
    /\ UNCHANGED <<test, cfg, value, run, times, results, has_wp, worker_processes,
                   wi, master, out, exc, crashes, evaluated, attempts,
                   files, old_files, report>>

\* stop_worker is called again (cleanup, after the stop_worker of a sweep)
StopAgain ==
    /\ pc = "st_done"
    /\ pc' = "st_enter"
    /\ UNCHANGED <<test, cfg, value, run, times, results, has_wp, worker_processes,
                   procs, wi, master, out, exc, pool, crashes, evaluated, attempts,
                   files, old_files, report>>

\* The pools stop_worker can find: none was ever started; the first n
\* handles of a pool (all of them, or those started before start_worker
\* failed or was interrupted), each running, exited by itself or stopped by
\* an interrupted stop_worker; a pool already stopped.
TrackedStates == {"running", "exited", "terminated"}
PoolsOf(n) ==
    {[h \in 1..NumWorkers |-> IF h <= n THEN f[h] ELSE "none"] : f \in [1..n -> TrackedStates]}
StoppedPools == [1..NumWorkers -> {"exited", "terminated"}] \cup {NoProcs}

StopInputs ==
    {[has_wp |-> FALSE, worker_processes |-> <<>>, procs |-> NoProcs, pool |-> "none"]}
    \cup {[has_wp |-> TRUE, worker_processes |-> <<>>, procs |-> ps, pool |-> "stopped"]
             : ps \in StoppedPools}
    \cup UNION {{[has_wp |-> TRUE, worker_processes |-> [i \in 1..n |-> i], procs |-> ps,
                   pool |-> IF n = NumWorkers THEN "ready" ELSE "failed"]
                    : ps \in PoolsOf(n)} : n \in 1..NumWorkers}

InitStop ==
    /\ pc = "st_enter"
    /\ \E i \in StopInputs :
          /\ has_wp = i.has_wp
          /\ worker_processes = i.worker_processes
          /\ procs = i.procs
          /\ pool = i.pool
    /\ test = "Fixed_Cycles"
    /\ cfg = [start |-> 1, increment |-> 1, max |-> 1]
    /\ value = 1
    /\ run = 0
    /\ times = <<>>
    /\ results = <<>>
    /\ wi = 0
    /\ master = "none"
    /\ out = NoOutput
    /\ exc = "none"
    /\ crashes = 0
    /\ evaluated = <<>>
    /\ attempts = <<>>
    /\ files = NoFiles
    /\ old_files = NoFiles
    /\ report = "none"

\* the steps of one call of stop_worker
StopCall ==
    \/ StopEnter
    \/ TerminateWorker
    \/ WaitWorker
    \/ WaitTimesOut
    \/ KillWorker
    \/ PkillWorkers

NextStop ==
    \/ StopCall
    \/ StopAgain

SpecStop == InitStop /\ [][NextStop]_vars

\* The control thread goes on as long as a step of the call is possible.
SpecStopLive == SpecStop /\ WF_vars(StopCall)

(***************************************************************************)
(* run_simulation on a driver result, as a function of the exit code and   *)
(* the captured output: any list of up to MaxLines lines, a line being     *)
(* noise or the marker followed by no token, a token float() rejects, or a *)
(* token float() accepts (also a negative number or zero), alone or        *)
(* followed by more text.                                                  *)
(***************************************************************************)
MaxLines == 2

ParseValues == {-6, 0, 180}
ParseLines ==
    {NoiseLine, MarkerLine(<<>>), MarkerLine(<<JunkTok>>)}
    \cup {MarkerLine(<<NumTok(t)>>) : t \in ParseValues}
    \cup {MarkerLine(<<NumTok(t), JunkTok>>) : t \in ParseValues}
ParseInputs ==
    {[rc |-> c, stdout |-> ls] : c \in {0, 1},
                                 ls \in UNION {[1..n -> ParseLines] : n \in 0..MaxLines}}

\* the part of run_simulation after subprocess.run has returned `out`
ParseOutput ==
    /\ pc = "parse"
    /\ attempts' = <<Classify(out).runtime>>
    /\ times' = IF Classify(out).runtime # PyNone THEN <<Classify(out).runtime.v>> ELSE <<>>
    /\ pc' = "parsed"
    /\ UNCHANGED <<test, cfg, value, run, results, has_wp, worker_processes, procs,
                   wi, master, out, exc, pool, crashes, evaluated, files, old_files, report>>

InitParse ==
    /\ pc = "parse"
    /\ out \in ParseInputs
    /\ test = "Fixed_Particles"
    /\ cfg = [start |-> 1, increment |-> 1, max |-> 1]
    /\ value = 1
    /\ run = 0
    /\ times = <<>>
    /\ results = <<>>
    /\ has_wp = TRUE
    /\ worker_processes = <<1, 2, 3, 4>>
    /\ procs = [h \in 1..NumWorkers |-> "running"]
    /\ wi = 0
    /\ master = "none"
    /\ exc = "none"
    /\ pool = "ready"
    /\ crashes = 0
    /\ evaluated = <<1>>
    /\ attempts = <<>>
    /\ files = NoFiles
    /\ old_files = NoFiles
    /\ report = "none"

NextParse == ParseOutput

SpecParse == InitParse /\ [][NextParse]_vars

(***************************************************************************)
(* The auxiliary distributed checks: test_distributed_simple.py,           *)
(* debug_distributed.py and quick_test.py.  Each starts one worker (handle *)
(* 1 of procs), runs a master against it and stops the worker.  Here test  *)
(* names the script, value is the index of the mode quick_test is at, and  *)
(* worker_processes is the variable that holds the worker handle where the *)
(* stop is written: the local `worker` of test_distributed, the            *)
(* `worker_process` of quick_test.main (bound only when test_mode has      *)
(* returned).  A process outlives the script that started it.              *)
(***************************************************************************)
Scripts == {"test_distributed_simple", "debug_distributed", "quick_test"}
Modes == <<"sequential", "parallel", "distributed">>

\* quick_test.main: the JAR check returns, or the try block is entered
QuickMain ==
    /\ test = "quick_test"
    /\ pc = "ax_begin"
    /\ \E jar \in BOOLEAN : pc' = IF jar THEN "ax_mode" ELSE "ax_returned"
    /\ UNCHANGED <<test, cfg, value, run, times, results, has_wp, worker_processes,
                   procs, wi, master, out, exc, pool, crashes, evaluated, attempts,
                   files, old_files, report>>

\* where a script starts its worker
AtWorkerStart ==
    \/ test \in {"test_distributed_simple", "debug_distributed"} /\ pc = "ax_begin"
    \/ test = "quick_test" /\ pc = "ax_mode" /\ Modes[value] = "distributed"

\* worker = subprocess.Popen(worker_cmd, ...)
AuxSpawnWorker ==
    /\ AtWorkerStart
    /\ procs' = [procs EXCEPT ![1] = "running"]
    /\ worker_processes' = IF test = "quick_test" THEN worker_processes ELSE <<1>>
    /\ pc' = "ax_init"
    /\ UNCHANGED <<test, cfg, value, run, times, results, has_wp, wi, master, out,
                   exc, pool, crashes, evaluated, attempts, files, old_files, report>>

\* subprocess.Popen of the worker raises (no such executable): no process is
\* started; in quick_test the call is outside the try of test_mode
AuxSpawnRaises ==
    /\ AtWorkerStart
    /\ exc' = "OSError"
    /\ pc' = IF test = "quick_test" THEN "ax_finally" ELSE "ax_raised"
    /\ UNCHANGED <<test, cfg, value, run, times, results, has_wp, worker_processes,
                   procs, wi, master, out, pool, crashes, evaluated, attempts,
                   files, old_files, report>>

\* the worker process exits by itself while the script sleeps or waits
AuxWorkerExit ==
    /\ pc \in {"ax_init", "ax_wait"}
    /\ procs[1] = "running"
    /\ procs' = [procs EXCEPT ![1] = "exited"]
    /\ UNCHANGED <<pc, test, cfg, value, run, times, results, has_wp, worker_processes,
                   wi, master, out, exc, pool, crashes, evaluated, attempts,
                   files, old_files, report>>

\* time.sleep(5) / time.sleep(2) is over; test_distributed_simple alone
\* probes the worker and returns when it has died
AuxInitDone ==
    /\ pc = "ax_init"
    /\ pc' = IF test = "test_distributed_simple" /\ procs[1] # "running"
             THEN "ax_returned"
             ELSE "ax_launch"
    /\ UNCHANGED <<test, cfg, value, run, times, results, has_wp, worker_processes,
                   procs, wi, master, out, exc, pool, crashes, evaluated, attempts,
                   files, old_files, report>>

\* where a script launches the simulation: the master of the distributed
\* mode, or the sequential / parallel run of quick_test
AtLaunch ==
    \/ pc = "ax_launch"
    \/ test = "quick_test" /\ pc = "ax_mode" /\ Modes[value] # "distributed"

\* subprocess.run(master_cmd, timeout=...) / subprocess.Popen(master_cmd)
\* has started the process
AuxLaunchMaster ==
    /\ AtLaunch
    /\ master' = "running"
    /\ out' = NoOutput
    /\ pc' = "ax_wait"
    /\ UNCHANGED <<test, cfg, value, run, times, results, has_wp, worker_processes,
                   procs, wi, exc, pool, crashes, evaluated, attempts,
                   files, old_files, report>>

\* the launch raises: test_mode catches it (except Exception) and returns,
\* the two test_distributed functions let it through
AuxLaunchRaises ==
    /\ AtLaunch
    /\ out' = NoOutput
    /\ IF test = "quick_test"
       THEN pc' = "ax_mode_done" /\ exc' = exc
       ELSE pc' = "ax_raised" /\ exc' = "OSError"
    /\ UNCHANGED <<test, cfg, value, run, times, results, has_wp, worker_processes,
                   procs, wi, master, pool, crashes, evaluated, attempts,
                   files, old_files, report>>

\* the simulation exits, with whatever exit code and output
AuxMasterExits ==
    /\ pc = "ax_wait"
    /\ master = "running"
    /\ out' \in DriverOutputs
    /\ master' = "none"
    /\ pc' = IF test = "quick_test" THEN "ax_mode_done" ELSE "ax_terminate"
    /\ UNCHANGED <<test, cfg, value, run, times, results, has_wp, worker_processes,
                   procs, wi, exc, pool, crashes, evaluated, attempts,
                   files, old_files, report>>

\* subprocess.run(..., timeout=20 / timeout=10) kills the simulation and
\* raises TimeoutExpired: caught in test_mode, not in test_distributed;
\* debug_distributed waits without a timeout
AuxMasterTimeout ==
    /\ pc = "ax_wait"
    /\ master = "running"
    /\ test \in {"test_distributed_simple", "quick_test"}
    /\ out' = KilledOutput
    /\ master' = "none"
    /\ IF test = "quick_test"
       THEN pc' = "ax_mode_done" /\ exc' = exc
       ELSE pc' = "ax_raised" /\ exc' = "TimeoutExpired"
    /\ UNCHANGED <<test, cfg, value, run, times, results, has_wp, worker_processes,
                   procs, wi, pool, crashes, evaluated, attempts,
                   files, old_files, report>>

\* KeyboardInterrupt while the script sleeps or waits.  No except clause
\* catches it; subprocess.run kills the simulation it waits for, the Popen
\* of debug_distributed does not; only quick_test has a finally clause, and
\* an interrupt inside that clause leaves it.
AuxInterrupt ==
    /\ pc \in {"ax_init", "ax_wait", "ax_waitworker"}
    /\ exc' = "KeyboardInterrupt"
    /\ master' = IF test = "debug_distributed" THEN master ELSE "none"
    /\ pc' = IF test = "quick_test" /\ pc # "ax_waitworker"
             THEN "ax_finally"
             ELSE "ax_raised"
    /\ UNCHANGED <<test, cfg, value, run, times, results, has_wp, worker_processes,
                   procs, wi, out, pool, crashes, evaluated, attempts,
                   files, old_files, report>>

\* test_mode returns worker_process; main binds it after the distributed
\* mode only (worker_process = test_mode("distributed"))
QuickModeDone ==
    /\ pc = "ax_mode_done"
    /\ IF value < Len(Modes)
       THEN /\ value' = value + 1
            /\ pc' = "ax_mode"
            /\ worker_processes' = worker_processes
       ELSE /\ value' = value
            /\ pc' = "ax_finally"
            /\ worker_processes' = <<1>>
    /\ UNCHANGED <<test, cfg, run, times, results, has_wp, procs, wi, master, out,
                   exc, pool, crashes, evaluated, attempts, files, old_files, report>>

\* finally: if worker_process: ...; without it the clause is over and the
\* function returns or the exception goes on
QuickFinally ==
    /\ pc = "ax_finally"
    /\ pc' = IF worker_processes # <<>> THEN "ax_terminate"
             ELSE IF exc = "none" THEN "ax_returned" ELSE "ax_raised"
    /\ UNCHANGED <<test, cfg, value, run, times, results, has_wp, worker_processes,
                   procs, wi, master, out, exc, pool, crashes, evaluated, attempts,
                   files, old_files, report>>

\* worker.terminate(): the worker exits, or ignores the request
AuxTerminate ==
    /\ pc = "ax_terminate"
    /\ IF procs[1] = "running"
       THEN \E answer \in {"terminated", "ignoring"} :
                procs' = [procs EXCEPT ![1] = answer]
       ELSE procs' = procs
    /\ pc' = "ax_waitworker"
    /\ UNCHANGED <<test, cfg, value, run, times, results, has_wp, worker_processes,
                   wi, master, out, exc, pool, crashes, evaluated, attempts,
                   files, old_files, report>>

\* worker.wait() / worker_process.wait(timeout=5) returns: the worker has
\* exited.  Without a timeout the wait for a worker that ignores the
\* request does not return.
AuxWaitReturns ==
    /\ pc = "ax_waitworker"
    /\ procs[1] # "ignoring"
    /\ pc' = "ax_returned"
    /\ UNCHANGED <<test, cfg, value, run, times, results, has_wp, worker_processes,
                   procs, wi, master, out, exc, pool, crashes, evaluated, attempts,
                   files, old_files, report>>

\* worker_process.wait(timeout=5) raises TimeoutExpired out of the finally
\* clause of quick_test.main; nothing kills the worker
QuickWaitTimesOut ==
    /\ pc = "ax_waitworker"
    /\ test = "quick_test"
    /\ procs[1] = "ignoring"
    /\ exc' = "TimeoutExpired"
    /\ pc' = "ax_raised"
    /\ UNCHANGED <<test, cfg, value, run, times, results, has_wp, worker_processes,
                   procs, wi, master, out, pool, crashes, evaluated, attempts,
                   files, old_files, report>>

\* a script is started; pkill has ended the workers of earlier runs
InitAux ==
    /\ test \in Scripts
    /\ pc = "ax_begin"
    /\ value = 1
    /\ procs = NoProcs
    /\ worker_processes = <<>>
    /\ master = "none"
    /\ out = NoOutput
    /\ exc = "none"
    /\ cfg = [start |-> 1, increment |-> 1, max |-> 1]
    /\ run = 0
    /\ times = <<>>
    /\ results = <<>>
    /\ has_wp = FALSE
    /\ wi = 0
    /\ pool = "none"
    /\ crashes = 0
    /\ evaluated = <<>>
    /\ attempts = <<>>
    /\ files = NoFiles
    /\ old_files = NoFiles
    /\ report = "none"

NextAux ==
    \/ QuickMain
    \/ AuxSpawnWorker
    \/ AuxSpawnRaises
    \/ AuxWorkerExit
    \/ AuxInitDone
    \/ AuxLaunchMaster
    \/ AuxLaunchRaises
    \/ AuxMasterExits
    \/ AuxMasterTimeout
    \/ AuxInterrupt
    \/ QuickModeDone
    \/ QuickFinally
    \/ AuxTerminate
    \/ AuxWaitReturns
    \/ QuickWaitTimesOut

SpecAux == InitAux /\ [][NextAux]_vars

(***************************************************************************)
(* Properties of one sweep (SpecSweep).                                    *)
(***************************************************************************)
ControlOf(r) == IF r.test_type = "Fixed_Particles" THEN r.cycles ELSE r.particles
SweepRecords == SelectSeq(results, LAMBDA r : r.test_type = test)
RecordValues == [i \in 1..Len(SweepRecords) |-> ControlOf(SweepRecords[i])]
Front(s) == SubSeq(s, 1, Len(s) - 1)
Last(s) == s[Len(s)]

\* the repetitions at the current value are over
RepsDone == Len(attempts) = runs_per_config
Successes == SelectSeq(attempts, LAMBDA a : a # PyNone)
SuccessTimes == [i \in 1..Len(Successes) |-> Successes[i].v]
AllFailed == RepsDone /\ Successes = <<>>
AfterAggregate == pc \in {"loop", "stop"} /\ RepsDone

\* C1: the control values at which trials are run are start, start + inc,
\* start + 2*inc, ... with none skipped and none above the upper bound, and
\* the records' control values are a strictly increasing selection of them.
C1_SweepValues ==
    LET rv == RecordValues
    IN  /\ \A i \in 1..Len(evaluated) :
              /\ evaluated[i] = cfg.start + (i - 1) * cfg.increment
              /\ evaluated[i] <= cfg.max
        /\ \A i \in 1..Len(rv) :
              /\ \E j \in 1..Len(evaluated) : rv[i] = evaluated[j]
              /\ i > 1 => rv[i - 1] < rv[i]

C1_Witness ==
    /\ pc = "returned"
    /\ cfg.increment = 1
    /\ evaluated = <<1, 2, 3>>
    /\ RecordValues = <<1, 2, 3>>

\* C2: when the mean of the successful times at a value exceeds the budget the
\* record of that value is emitted and the loop is left, and no trial is ever
\* run at a value above one whose record exceeds the budget.
C2_AdaptiveStop ==
    LET st == SuccessTimes
        sr == SweepRecords
    IN  /\ (AfterAggregate /\ st # <<>> /\ SumSeq(st) > max_runtime_seconds * Len(st))
           => /\ pc = "stop"
              /\ sr # <<>>
              /\ ControlOf(Last(sr)) = value
              /\ Last(sr).run_times = st
        /\ \A i \in 1..Len(sr) :
              sr[i].average_time.v > max_runtime_seconds
              => \A j \in 1..Len(evaluated) : evaluated[j] <= ControlOf(sr[i])

C2_Witness ==
    /\ pc = "returned"
    /\ cfg = [start |-> 1, increment |-> 1, max |-> 3]
    /\ evaluated = <<1, 2>>
    /\ Len(SweepRecords) = 2
    /\ SweepRecords[1].run_times = <<180, 180, 180>>
    /\ SweepRecords[2].run_times = <<540, 540, 540>>

\* C3: when every repetition at a value failed, the sweep is on its way out
\* (it stops its workers and returns) and the failed value is the last one at
\* which a trial was run.
C3_AllFailedStops ==
    (AllFailed /\ pc # "for")
    => /\ pc \in {"stop", "sleep"}
       /\ Last(evaluated) = value
       /\ master = "none"

C3_Witness ==
    /\ AllFailed
    /\ pc = "sleep"
    /\ value + cfg.increment <= cfg.max
    /\ Last(evaluated) = value

\* C4 (as claimed): when control has left the sweep function, by return or by
\* an exception, no worker started in the sweep is still running.
C4_NoLeakOnExit == pc \in {"returned", "raised"} => Running = {}

\* C5 (as claimed): once start_worker has reported a worker that exited at its
\* probe, no driver runs in the rest of the sweep.
C5_NoDriverAfterStartFailure == pool = "failed" => master # "running"

\* C6 (as claimed): a driver runs only against a pool of NumWorkers handles
\* whose start_worker call returned True.
C6_DriverNeedsReadyPool ==
    master = "running" => (pool = "ready" /\ Len(worker_processes) = NumWorkers)

\* C7: a driver that exits 0 without the marker is a failed repetition, and
\* the record of a value holds exactly the successful times, in repetition
\* order, with their mean (failed repetitions count for nothing).
NoMarker(o) == o.rc = 0 /\ \A i \in 1..Len(o.stdout) : ~o.stdout[i].marker

C7_MissingMeasurement ==
    /\ (pc \in {"for", "loop", "stop"} /\ attempts # <<>> /\ NoMarker(out))
       => Last(attempts) = PyNone
    /\ (AfterAggregate /\ Successes # <<>>)
       => LET st == SuccessTimes
              sr == SweepRecords
          IN  /\ sr # <<>>
              /\ Last(sr).run_times = st
              /\ Last(sr).average_time.v * Len(st) = SumSeq(st)

C7_Witness ==
    /\ pc = "stop"
    /\ NoMarker(out)
    /\ attempts = <<PyFloat(180), PyFloat(540), PyNone>>
    /\ Last(SweepRecords).run_times = <<180, 540>>
    /\ Last(SweepRecords).average_time = PyFloat(360)

\* C8: in every record average_time is the arithmetic mean of run_times and
\* std_dev is their sample standard deviation (on the grid of the model:
\* s^2 <= (k*sum(x^2) - sum(x)^2) / (k*(k-1)) < (s+1)^2), and exactly 0 when
\* one repetition succeeded.
RECURSIVE SumOfSquares(_)
SumOfSquares(s) == IF s = <<>> THEN 0 ELSE Head(s) * Head(s) + SumOfSquares(Tail(s))

IsSampleStdDev(sd, ts) ==
    LET k == Len(ts)
        num == k * SumOfSquares(ts) - SumSeq(ts) * SumSeq(ts)
        den == k * (k - 1)
    IN  /\ sd * sd * den <= num
        /\ num < (sd + 1) * (sd + 1) * den

C8_MeanAndStdDev ==
    \A i \in 1..Len(results) :
        LET r == results[i]
            k == Len(r.run_times)
        IN  /\ k \in 1..runs_per_config
            /\ r.average_time.v * k = SumSeq(r.run_times)
            /\ k = 1 => r.std_dev.v = 0
            /\ k > 1 => IsSampleStdDev(r.std_dev.v, r.run_times)

C8_Witness ==
    /\ AfterAggregate
    /\ Len(results) = 2
    /\ attempts = <<PyFloat(180), PyFloat(540), PyNone>>
    /\ results[1].run_times = <<180>>
    /\ results[1].std_dev = PyInt(0)
    /\ results[2].run_times = <<180, 540>>
    /\ results[2].average_time = PyFloat(360)
    /\ results[2].std_dev = PyFloat(254)

C13_TimeoutKeepsPool ==
    [][/\ (pc = "wait" /\ out' = KilledOutput)
          => /\ master' = "none"
             /\ pc' = "for"
             /\ UNCHANGED <<has_wp, worker_processes, procs, pool>>
       /\ (out = KilledOutput /\ pc \in {"for", "loop"})
          => /\ pc' \in {"for", "launch", "loop", "stop"}
             /\ UNCHANGED <<worker_processes, procs>>]_vars

C13_Witness ==
    /\ pc = "for"
    /\ out = KilledOutput
    /\ attempts = <<PyFloat(180), PyNone>>
    /\ pool = "ready"
    /\ worker_processes = <<1, 2, 3, 4>>
    /\ Running = 1..NumWorkers
    /\ evaluated = <<1, 2>>
    /\ Len(results) = 1

\* C14: at most one driver is alive.  A driver runs only while the control
\* thread is inside the subprocess.run call that started it, and when
\* run_simulation is about to launch a driver none is left from an earlier
\* trial, whatever way that trial ended.
C14_OneDriver ==
    /\ master = "running" => pc = "wait"
    /\ pc \in {"for", "launch", "loop", "stop", "sleep", "returned", "raised"}
       => master = "none"

C14_Witness ==
    /\ pc = "for"
    /\ out = KilledOutput
    /\ run = 2
    /\ attempts = <<PyNone, PyNone>>
    /\ master = "none"

\* C16: a trial that fails (timeout, non-zero exit, no measurement or one
\* that cannot be read, a driver that cannot be launched) raises nothing:
\* run_simulation returns None, no time is added, and the sweep is back in
\* the repetition loop of the same control value with the next repetition.
UnparsableMeasurement(o) ==
    /\ o.rc = 0
    /\ \E i \in 1..Len(o.stdout) :
          /\ o.stdout[i].marker
          /\ \A j \in 1..(i - 1) : ~o.stdout[j].marker
          /\ o.stdout[i].rest = <<>> \/ ~o.stdout[i].rest[1].num
FailedTrial(o) == o.rc # 0 \/ NoMarker(o) \/ UnparsableMeasurement(o)

C16_RepetitionFailuresAbsorbed ==
    [][(pc \in {"launch", "wait"} /\ pc' \notin {"launch", "wait"}
        /\ exc' # "KeyboardInterrupt")
       => /\ pc' = "for"
          /\ exc' = "none"
          /\ run' = run + 1
          /\ UNCHANGED <<value, evaluated, results>>
          /\ FailedTrial(out') => (times' = times /\ Last(attempts') = PyNone)]_vars

C16_Witness ==
    /\ pc = "wait"
    /\ run = 2
    /\ attempts = <<PyNone, PyNone>>
    /\ times = <<>>
    /\ exc = "none"
    /\ value = 2

\* C18: at every control value the repetitions are run one after the other,
\* runs_per_config of them, whether they succeed or fail: the number of
\* outcomes is the loop index while the repetitions run, and it is
\* runs_per_config when the control value is done.
InRepetition == {"sw_spawn", "sw_probe", "sw_settle", "launch", "wait"}

C18_ExactRepetitions ==
    /\ run \in 0..runs_per_config
    /\ pc \in InRepetition \cup {"for"} => Len(attempts) = run
    /\ pc \in InRepetition => run < runs_per_config
    /\ pc \in {"loop", "stop", "sleep"}
       => IF evaluated = <<>> THEN attempts = <<>> ELSE Len(attempts) = runs_per_config
    /\ Len(SweepRecords) <= Len(evaluated)

C18_Witness ==
    /\ pc = "loop"
    /\ attempts = <<PyNone, PyFloat(180), PyNone>>
    /\ evaluated = <<1>>
    /\ Len(results) = 1

\* C21: on each normal way out of the while loop (the next value is above
\* the upper bound, the mean is above the budget, all repetitions failed)
\* stop_worker runs after the last trial and before the sweep returns: no
\* driver is alive when it runs, and from then on no handle is tracked and
\* no worker is running.
BoundReached == value > cfg.max
BudgetStop == Successes # <<>> /\ SumSeq(SuccessTimes) > max_runtime_seconds * Len(Successes)

C21_StopBeforeReturn ==
    /\ pc = "stop" => (master = "none" /\ (BoundReached \/ BudgetStop \/ AllFailed))
    /\ pc \in {"sleep", "returned"}
       => /\ worker_processes = <<>>
          /\ Running = {}
          /\ master = "none"
          /\ pool \in {"none", "stopped"}

C21_Witness ==
    /\ pc = "sleep"
    /\ BudgetStop
    /\ ~BoundReached
    /\ value + cfg.increment <= cfg.max
    /\ pool = "stopped"
    /\ worker_processes = <<>>
    /\ \A h \in 1..NumWorkers : procs[h] \in {"terminated", "killed"}

\* C22: a failed repetition alone does not end the sweep.  The loop is left
\* only at the upper bound, after a value at which all repetitions failed, or
\* after a value whose mean is above the budget; after a value with at least
\* one success and a mean within the budget the control variable is the next
\* value, and that value is evaluated when it is within the bound.
C22_FailureAloneGoesOn ==
    /\ pc = "stop" => (BoundReached \/ AllFailed \/ BudgetStop)
    /\ (AfterAggregate /\ Successes # <<>> /\ ~BudgetStop)
       => (value = Last(evaluated) + cfg.increment /\ (pc = "loop" \/ BoundReached))
    /\ (pc = "loop" /\ evaluated # <<>>)
       => (Successes # <<>> /\ ~BudgetStop /\ value = Last(evaluated) + cfg.increment)
    /\ (pc \in InRepetition \/ (pc = "for" /\ run > 0)) => Last(evaluated) = value

C22_Witness ==
    /\ pc = "launch"
    /\ evaluated = <<1, 2>>
    /\ Len(SweepRecords) = 1
    /\ SweepRecords[1].run_times = <<180>>
    /\ value = 2
    /\ run = 0

\* C23 (as claimed): once a worker of a ready pool has exited, run_simulation
\* launches no further driver in the sweep.
Tracked == {worker_processes[i] : i \in 1..Len(worker_processes)}

C23_NoTrialAfterWorkerLoss ==
    (pc = "launch" /\ pool = "ready") => \A h \in Tracked : procs[h] = "running"

\* C24 (as claimed): when start_worker reports a worker that exited at its
\* probe, the pool is torn down: no worker started in that attempt is still
\* running and no handle is tracked.
C24_FailedStartTornDown ==
    pool = "failed" => (Running = {} /\ worker_processes = <<>>)

\* C25: the pool is started lazily and once.  start_worker runs only inside
\* the first run_simulation call of the sweep, before any driver; a driver
\* runs only after that start, against the handles it left; while the pool
\* is ready the handles are those four; a sweep without a trial starts no
\* worker.
InStartWorker == {"sw_spawn", "sw_probe", "sw_settle"}

C25_LazyPoolStartedOnce ==
    /\ pc \in InStartWorker
       => (run = 0 /\ Len(evaluated) = 1 /\ results = <<>> /\ master = "none")
    /\ pc \in {"launch", "wait"} => (pool \in {"ready", "failed"} /\ worker_processes # <<>>)
    /\ pool = "ready" => worker_processes = <<1, 2, 3, 4>>
    /\ evaluated = <<>> => (procs = NoProcs /\ pool = "none" /\ worker_processes = <<>>)

C25_Witness ==
    /\ pc = "wait"
    /\ pool = "ready"
    /\ worker_processes = <<1, 2, 3, 4>>
    /\ Running = 1..NumWorkers
    /\ evaluated = <<1, 2>>
    /\ run = 2
    /\ crashes = 0

\* C30: a sweep ends.  With an increment >= 1 and trials that end, control
\* leaves the sweep function (it returns after stop_worker, or an interrupt
\* or error has left it), and on the way it evaluates at most
\* floor((max - start) / increment) + 1 values and runs at most
\* runs_per_config trials at each.
MaxValues == IF cfg.start > cfg.max THEN 0 ELSE (cfg.max - cfg.start) \div cfg.increment + 1

C30_SweepTerminates ==
    /\ [](Len(evaluated) <= MaxValues /\ run <= runs_per_config /\ Len(attempts) <= runs_per_config)
    /\ <>(pc \in {"returned", "raised"})

C30_Witness ==
    /\ pc = "returned"
    /\ cfg = [start |-> 1, increment |-> 2, max |-> 3]
    /\ evaluated = <<1, 3>>
    /\ Len(results) = 2
    /\ pool = "stopped"

\* C31: a sweep whose start exceeds its upper bound does nothing and ends
\* cleanly.  It never enters the loop body: no value is evaluated, no trial
\* runs, no worker is started, no record is made; its stop_worker call goes
\* on to the closing sleep with no exception (only an interrupt of that
\* sleep can still leave the sweep by an exception).  The loop test includes
\* the bound: a control value equal to the upper bound enters the loop body.
EmptySweep == cfg.start > cfg.max

C31_EmptySweepAndInclusiveBound ==
    /\ [](EmptySweep =>
            /\ pc \in {"loop", "stop", "sleep", "returned", "raised"}
            /\ evaluated = <<>> /\ attempts = <<>> /\ times = <<>> /\ results = <<>>
            /\ procs = NoProcs /\ worker_processes = <<>> /\ pool = "none"
            /\ master = "none"
            /\ (pc # "raised" => exc = "none"))
    /\ [][(EmptySweep /\ pc = "loop") => pc' = "stop"]_vars
    /\ [][(EmptySweep /\ pc = "stop") => (pc' = "sleep" /\ exc' = "none")]_vars
    /\ [][(pc = "loop" /\ value = cfg.max) => (pc' = "for" /\ run' = 0)]_vars
    /\ [](pc \in {"for", "sw_spawn", "sw_probe", "sw_settle", "launch", "wait"}
            => (cfg.start <= value /\ value <= cfg.max))

C31_Witness ==
    /\ pc = "returned"
    /\ EmptySweep
    /\ cfg.start = cfg.max + 1
    /\ evaluated = <<>>
    /\ results = <<>>
    /\ procs = NoProcs
    /\ exc = "none"

\* C34: start_worker is attempted at most once in a sweep.  It is entered
\* only from the first run_simulation call of the sweep; when it has
\* returned False the list holds the handles gathered so far, the failed
\* one last, so the list test of run_simulation finds a pool; and every
\* later call of the sweep goes to the launch of the driver with the list
\* as it was.
C34_StartAttemptedOnce ==
    /\ [](pool = "failed"
            => /\ worker_processes # <<>>
               /\ \A i \in 1..Len(worker_processes) : worker_processes[i] = i
               /\ procs[Last(worker_processes)] = "exited"
               /\ \A i \in 1..(Len(worker_processes) - 1) : procs[i] # "none"
               /\ ~PoolMissing)
    /\ [][(pc = "for" /\ pc' = "sw_spawn") => (evaluated = <<>> /\ run = 0 /\ results = <<>>)]_vars
    /\ [][(pool = "failed" /\ pc = "for" /\ run < runs_per_config)
            => (pc' = "launch" /\ pool' = "failed" /\ worker_processes' = worker_processes)]_vars

C34_Witness ==
    /\ pool = "failed"
    /\ pc = "launch"
    /\ run = 1
    /\ attempts = <<PyNone>>
    /\ worker_processes = <<1, 2>>
    /\ procs[1] = "running"
    /\ procs[2] = "exited"

(***************************************************************************)
(* Properties of the result store (SpecStore).  A row is re-read the way   *)
(* csv.reader and the numeric conversions of a reader do it: split at the  *)
(* commas, int() and float() of the fields, the empty field for a missing  *)
(* time.                                                                   *)
(***************************************************************************)
RECURSIVE SplitFields(_, _)
\* the fields of a line, cur being the field that is read
SplitFields(line, cur) ==
    IF line = <<>> THEN <<cur>>
    ELSE IF Head(line) = "," THEN <<cur>> \o SplitFields(Tail(line), <<>>)
    ELSE SplitFields(Tail(line), Append(cur, Head(line)))

DigitValue(c) == CHOOSE d \in 0..9 : DigitChar(d) = c
IsDigit(c) == \E d \in 0..9 : DigitChar(d) = c

RECURSIVE ParseDigits(_, _)
ParseDigits(txt, acc) ==
    IF txt = <<>> THEN acc ELSE ParseDigits(Tail(txt), 10 * acc + DigitValue(Head(txt)))

\* int(text); -1 stands for a ValueError
ParseInt(txt) ==
    IF txt # <<>> /\ \A i \in 1..Len(txt) : IsDigit(txt[i]) THEN ParseDigits(txt, 0) ELSE -1

\* float(text) on the grid: digits, optionally followed by ".0"
ParseFloat(txt) ==
    IF Len(txt) > 2 /\ SubSeq(txt, Len(txt) - 1, Len(txt)) = <<".", "0">>
    THEN ParseInt(SubSeq(txt, 1, Len(txt) - 2))
    ELSE ParseInt(txt)

\* a time slot as read: the empty field, or a number
AbsentSlot == [absent |-> TRUE, v |-> 0]
Slot(x) == [absent |-> FALSE, v |-> x]

ReadRow(line) ==
    LET f == SplitFields(line, <<>>)
    IN  IF Len(f) # 8 THEN [bad |-> TRUE]
        ELSE [bad |-> FALSE,
              mode |-> f[1],
              particles |-> ParseInt(f[2]),
              cycles |-> ParseInt(f[3]),
              slots |-> [i \in 1..3 |-> IF f[3 + i] = <<>> THEN AbsentSlot
                                        ELSE Slot(ParseFloat(f[3 + i]))],
              average_time |-> ParseFloat(f[7]),
              std_dev |-> ParseFloat(f[8])]

RoundTrips(r, line) ==
    LET row == ReadRow(line)
        k == Len(r.run_times)
    IN  /\ ~row.bad
        /\ row.mode = <<r.mode>>
        /\ row.particles = r.particles
        /\ row.cycles = r.cycles
        /\ row.average_time = r.average_time.v
        /\ row.std_dev = r.std_dev.v
        /\ \A i \in 1..3 : row.slots[i] = IF i <= k THEN Slot(r.run_times[i]) ELSE AbsentSlot

NewRows(f, oldf) == SubSeq(f, Len(oldf) + 1, Len(f))

\* C10: every row that save_results has written reads back as the record it
\* was written from: mode, particles, cycles, average_time and std_dev are
\* reproduced, the first k time slots are the successful times in order and
\* the other 3-k slots are empty.
C10_RoundTrip ==
    pc = "saved"
    => /\ Len(NewRows(files.fp, old_files.fp)) = Len(ResultsOf("Fixed_Particles"))
       /\ Len(NewRows(files.fc, old_files.fc)) = Len(ResultsOf("Fixed_Cycles"))
       /\ \A i \in 1..Len(ResultsOf("Fixed_Particles")) :
             RoundTrips(ResultsOf("Fixed_Particles")[i], NewRows(files.fp, old_files.fp)[i])
       /\ \A i \in 1..Len(ResultsOf("Fixed_Cycles")) :
             RoundTrips(ResultsOf("Fixed_Cycles")[i], NewRows(files.fc, old_files.fc)[i])

C10_Witness ==
    /\ pc = "saved"
    /\ Len(results) = 2
    /\ results[1].test_type = "Fixed_Particles"
    /\ results[1].run_times = <<180, 540>>
    /\ results[2].test_type = "Fixed_Cycles"
    /\ results[2].run_times = <<540>>
    /\ Len(files.fp) = 2
    /\ ReadRow(files.fp[2]).slots = <<Slot(180), Slot(540), AbsentSlot>>
    /\ ReadRow(files.fp[2]).std_dev = 254
    /\ ReadRow(files.fc[2]).slots = <<Slot(540), AbsentSlot, AbsentSlot>>

\* C11: every row of a result file has exactly 8 fields, in the order mode,
\* particles, cycles, run_time_1, run_time_2, run_time_3, average_time,
\* std_dev; for a record with k successful times (1 <= k <= runs_per_config)
\* the first k time fields are those times, in order, and the other
\* runs_per_config - k time fields are empty.
FieldsOf(line) == SplitFields(line, <<>>)
TimeFields(line) == SubSeq(FieldsOf(line), 4, 3 + runs_per_config)
FilledFields(fs) == SelectSeq(fs, LAMBDA f : f # <<>>)

RowLayout(r, line) ==
    LET f == FieldsOf(line)
        k == Len(r.run_times)
        tf == TimeFields(line)
    IN  /\ Len(f) = 8
        /\ k \in 1..runs_per_config
        /\ f[1] = <<r.mode>>
        /\ ParseInt(f[2]) = r.particles
        /\ ParseInt(f[3]) = r.cycles
        /\ Len(FilledFields(tf)) = k
        /\ \A i \in 1..runs_per_config :
              IF i <= k THEN ParseFloat(tf[i]) = r.run_times[i] ELSE tf[i] = <<>>
        /\ f[7] # <<>> /\ ParseFloat(f[7]) = r.average_time.v
        /\ f[8] # <<>> /\ ParseFloat(f[8]) = r.std_dev.v

C11_RowLayout ==
    /\ \A i \in 1..Len(files.fp) : Len(FieldsOf(files.fp[i])) = 8
    /\ \A i \in 1..Len(files.fc) : Len(FieldsOf(files.fc[i])) = 8
    /\ pc \in {"save_fc", "saved"}
       => \A i \in 1..Len(ResultsOf("Fixed_Particles")) :
             RowLayout(ResultsOf("Fixed_Particles")[i], NewRows(files.fp, old_files.fp)[i])
    /\ pc = "saved"
       => \A i \in 1..Len(ResultsOf("Fixed_Cycles")) :
             RowLayout(ResultsOf("Fixed_Cycles")[i], NewRows(files.fc, old_files.fc)[i])

C11_Witness ==
    /\ pc = "saved"
    /\ Len(results) = 2
    /\ results[1].test_type = "Fixed_Cycles"
    /\ results[1].run_times = <<540>>
    /\ results[2].run_times = <<180, 180, 540>>
    /\ old_files = NoFiles
    /\ Len(files.fc) = 2
    /\ Len(FilledFields(TimeFields(files.fc[1]))) = 1
    /\ Len(FilledFields(TimeFields(files.fc[2]))) = 3
    /\ ParseInt(FieldsOf(files.fc[2])[2]) = 2
    /\ ParseInt(FieldsOf(files.fc[2])[3]) = FC_cycles

\* C12: save_results only appends: each file keeps the rows it had, unchanged
\* and in order, and gets after them one row per record of the matching
\* sweep, in the order of the records; a record goes to one file only, once.
IsPrefix(s, t) == Len(s) <= Len(t) /\ SubSeq(t, 1, Len(s)) = s

C12_AppendOnly ==
    /\ IsPrefix(old_files.fp, files.fp)
    /\ IsPrefix(old_files.fc, files.fc)
    /\ pc = "save_fp" => files = old_files
    /\ pc = "save_fc" => files.fc = old_files.fc
    /\ pc = "saved"
       => LET nfp == NewRows(files.fp, old_files.fp)
              nfc == NewRows(files.fc, old_files.fc)
          IN  /\ Len(nfp) + Len(nfc) = Len(results)
              /\ Len(nfp) = Len(ResultsOf("Fixed_Particles"))
              /\ \A i \in 1..Len(nfp) :
                    /\ ReadRow(nfp[i]).particles = FP_particles
                    /\ ReadRow(nfp[i]).cycles = ControlOf(ResultsOf("Fixed_Particles")[i])
              /\ \A i \in 1..Len(nfc) :
                    /\ ReadRow(nfc[i]).cycles = FC_cycles
                    /\ ReadRow(nfc[i]).particles = ControlOf(ResultsOf("Fixed_Cycles")[i])

C12_Witness ==
    /\ pc = "saved"
    /\ old_files.fp = <<EarlierRow>>
    /\ old_files.fc = <<EarlierRow>>
    /\ Len(results) = 2
    /\ results[1].test_type = "Fixed_Particles"
    /\ results[2].test_type = "Fixed_Cycles"
    /\ Len(files.fp) = 2 /\ files.fp[1] = EarlierRow
    /\ Len(files.fc) = 2 /\ files.fc[1] = EarlierRow
    /\ ReadRow(files.fp[2]).cycles = 1
    /\ ReadRow(files.fc[2]).particles = 1

C17_SaveFailureIsError ==
    exc = "OSError"
    => /\ pc \in {"raised", "finally", "exited"}
       /\ report # "completed"
       /\ pc \in {"finally", "exited"} => report = "error"
       /\ pc = "exited" => (Running = {} /\ worker_processes = <<>> /\ pool = "stopped")

C17_Witness ==
    /\ pc = "exited"
    /\ exc = "OSError"
    /\ report = "error"
    /\ Len(ResultsOf("Fixed_Particles")) = 1
    /\ Len(ResultsOf("Fixed_Cycles")) = 1
    /\ Len(files.fp) = Len(old_files.fp) + 1
    /\ files.fc = old_files.fc

\* C29: the sweeps run one after the other.  When fixed_cycles_test begins,
\* fixed_particles_test has returned and stopped its workers: no worker
\* runs, no handle is tracked, no driver is alive; the first trial of the
\* second sweep finds no pool and starts its own; and the records of the
\* first sweep come before those of the second.
C29_SweepsInOrder ==
    /\ (test = "Fixed_Cycles" /\ evaluated = <<>> /\ pc \in {"loop", "for"})
       => /\ Running = {}
          /\ worker_processes = <<>>
          /\ master = "none"
          /\ pool \in {"none", "stopped"}
          /\ PoolMissing
    /\ (test = "Fixed_Cycles" /\ pc \in {"launch", "wait"}) => pool \in {"ready", "failed"}
    /\ test = "Fixed_Particles" => ResultsOf("Fixed_Cycles") = <<>>
    /\ \A i \in 1..Len(results) : \A j \in i..Len(results) :
          results[i].test_type = "Fixed_Cycles" => results[j].test_type = "Fixed_Cycles"

C29_Witness ==
    /\ test = "Fixed_Cycles"
    /\ pc = "wait"
    /\ master = "running"
    /\ pool = "ready"
    /\ Running = 1..NumWorkers
    /\ Len(results) = 1
    /\ results[1].test_type = "Fixed_Particles"
    /\ results[1].average_time.v > max_runtime_seconds

\* C33: records are written only at the end of a run whose two sweeps both
\* returned.  save_results is entered only from the return of
\* fixed_cycles_test, with no exception raised and the workers stopped; a
\* row is in a result file only after that; and a run that an interrupt or
\* an exception took out of a sweep (or out of setup) leaves both files as
\* it found them, whatever was measured before.
InSaveResults == pc \in {"save_fp", "save_fc", "saved"}
RowsWritten == files # old_files
LeftBeforeSave == exc \in {"KeyboardInterrupt", "Exception", "SystemExit"}

C33_SavedOnlyAfterBothSweeps ==
    /\ InSaveResults
       => /\ test = "Fixed_Cycles"
          /\ exc = "none"
          /\ master = "none" /\ Running = {} /\ worker_processes = <<>>
    /\ RowsWritten
       => /\ test = "Fixed_Cycles"
          /\ pc \in {"save_fc", "saved", "raised", "finally", "exited"}
          /\ exc \in {"none", "OSError"}
    /\ LeftBeforeSave => (~RowsWritten /\ pc \in {"raised", "finally", "exited"})

C33_Witness ==
    /\ pc = "exited"
    /\ exc = "KeyboardInterrupt"
    /\ test = "Fixed_Cycles"
    /\ Len(ResultsOf("Fixed_Particles")) = 1
    /\ evaluated = <<1>>
    /\ files = old_files
    /\ report = "interrupted"

(***************************************************************************)
(* Properties of stop_worker (SpecStop, SpecStopLive).                     *)
(***************************************************************************)
\* C19: stop_worker is safe on any pool.  With no pool ever started, or with
\* the list empty after an earlier stop_worker, it goes straight to the
\* pattern kill without touching a handle; terminate on a handle that has
\* exited changes nothing and its wait returns at once; no step raises, and
\* when the call returns no handle is tracked.
C19_StopIsSafe ==
    [][/\ (pc = "st_enter" /\ PoolMissing)
          => (pc' = "st_pkill" /\ UNCHANGED <<procs, worker_processes, has_wp>>)
       /\ (pc = "st_terminate" /\ procs[worker_processes[wi]] # "running")
          => (procs' = procs /\ pc' = "st_wait")
       /\ (pc = "st_wait" /\ procs[worker_processes[wi]] # "ignoring")
          => (procs' = procs /\ pc' # "st_kill")
       /\ (pc = "st_pkill" /\ Alive = {}) => procs' = procs
       /\ exc' = "none" /\ pc' # "raised"
       /\ pc' = "st_done" => (worker_processes' = <<>> /\ Alive' = {})]_vars

C19_Witness ==
    /\ pc = "st_done"
    /\ ~has_wp
    /\ worker_processes = <<>>
    /\ procs = NoProcs
    /\ exc = "none"
    /\ pool = "none"

\* C20: a call of stop_worker always returns, with no handle tracked and no
\* worker alive: a worker that ignores the terminate request is killed when
\* the wait of 5 seconds times out.
C20_StopReturns ==
    (pc = "st_enter") ~> (pc = "st_done" /\ worker_processes = <<>> /\ Alive = {})

C20_Witness ==
    /\ pc = "st_done"
    /\ has_wp
    /\ worker_processes = <<>>
    /\ procs = [h \in 1..NumWorkers |-> IF h = 2 THEN "terminated" ELSE "killed"]

(***************************************************************************)
(* Properties of run_simulation on a driver result (SpecParse).            *)
(***************************************************************************)
GoodMarker(l) == l.marker /\ l.rest # <<>> /\ l.rest[1].num
MarkerIndexes(o) == {i \in 1..Len(o.stdout) : o.stdout[i].marker}
FirstMarker(o) == CHOOSE i \in MarkerIndexes(o) : \A j \in MarkerIndexes(o) : i <= j
Outcome == attempts[1]

\* C26: a driver that exits with a non-zero code gives a failed outcome and
\* no time, whatever its output, also with a well-formed marker line.
C26_NonZeroExitFails ==
    (pc = "parsed" /\ out.rc # 0) => (Outcome = PyNone /\ times = <<>>)

C26_Witness ==
    /\ pc = "parsed"
    /\ out = [rc |-> 1, stdout |-> <<NoiseLine, MarkerLine(<<NumTok(180)>>)>>]
    /\ Outcome = PyNone
    /\ exc = "none"

\* C27 (as claimed): on exit code 0 a time is returned if and only if some
\* line of the output has the marker followed by a token that parses.
C27_AnyMarkerLine ==
    (pc = "parsed" /\ out.rc = 0)
    => (Outcome # PyNone <=> \E i \in 1..Len(out.stdout) : GoodMarker(out.stdout[i]))

\* C27 (amended): on exit code 0 the first line that holds the marker
\* decides.  A time is returned if and only if the first token after the
\* marker on that line parses as a number, and the time is that number; with
\* no marker line, no token, or a token that does not parse the outcome is a
\* failed repetition, and nothing is raised.
C27_FirstMarkerLineDecides ==
    (pc = "parsed" /\ out.rc = 0)
    => /\ exc = "none"
       /\ IF MarkerIndexes(out) # {} /\ GoodMarker(out.stdout[FirstMarker(out)])
          THEN Outcome = PyFloat(out.stdout[FirstMarker(out)].rest[1].v)
          ELSE Outcome = PyNone

C27_Witness ==
    /\ pc = "parsed"
    /\ out = [rc |-> 0, stdout |-> <<MarkerLine(<<JunkTok>>), MarkerLine(<<NumTok(180)>>)>>]
    /\ Outcome = PyNone
    /\ times = <<>>

\* C28 (as claimed): a time returned by run_simulation is >= 0.
C28_NonNegativeTime ==
    (pc = "parsed" /\ Outcome # PyNone) => Outcome.v >= 0

(***************************************************************************)
(* Properties of the auxiliary distributed checks (SpecAux).               *)
(***************************************************************************)
\* C32 (as claimed): when an auxiliary check has ended, by return or by an
\* exception, the worker it started is no longer alive.
C32_AuxWorkerStopped ==
    pc \in {"ax_returned", "ax_raised"} => Alive = {}

====
